---- MODULE Spec2Model ----
(***************************************************************************)
(* State-machine model of the protected and public routes of the backend:  *)
(* submit-answers, recommendations, save-card, chat and onboarding, acting *)
(* on the users collection, with the completion service and the fallible   *)
(* store updates as environment choices.                                   *)
(***************************************************************************)
EXTENDS Integers, Sequences, FiniteSets, TLC

VARIABLES store, inflight, nreq, lastReply, submitted

vars == <<store, inflight, nreq, lastReply, submitted>>

----------------------------------------------------------------------------
(* Bounds of the model *)

\* total number of incoming requests in one behaviour of Spec
MaxReqs == 2
\* number of requests that may be suspended at their await at the same time
MaxInFlight == 2
\* length of the name strings a save-card payload may carry (SpecWide)
MaxNameLen == 2

----------------------------------------------------------------------------
(* Optional values: None is <<>>, a present value x is <<x>> *)

None == <<>>
Some(x) == <<x>>

Users == {"u1", "u2"}

----------------------------------------------------------------------------
(* Strings that the code trims and lowercases are sequences of characters *)

Chars == {"A", "a", " "}

lower(s) == [i \in 1..Len(s) |-> IF s[i] = "A" THEN "a" ELSE s[i]]

RECURSIVE lstrip(_)
lstrip(s) == IF s # <<>> /\ Head(s) = " " THEN lstrip(Tail(s)) ELSE s

RECURSIVE rstrip(_)
rstrip(s) ==
    IF s # <<>> /\ s[Len(s)] = " " THEN rstrip(SubSeq(s, 1, Len(s) - 1)) ELSE s

strip(s) == rstrip(lstrip(s))

----------------------------------------------------------------------------
(* The card catalog (credit_cards.json): entries with unique non-empty ids *)

Card(id, name, issuer) ==
    [id |-> id, name |-> name, issuer |-> issuer, card_type |-> "credit",
     annual_fee |-> 95, apr_range |-> "20-27", image_url |-> "img",
     rewards_structure |-> "1x"]

Catalog ==
    << Card("amex-1", <<"A">>, "Amex"),
       Card("chase-2", <<"a", "a">>, "Chase") >>

\* load_cards: the catalog, or the HTTPException(500) it raises
load_cards(fileOk) == IF fileOk THEN Some(Catalog) ELSE None

----------------------------------------------------------------------------
(* The users collection: a sequence of documents; a document is a function *)
(* from the names of the fields it has to their values                     *)

find_one(coll, u) ==
    LET hits == {i \in 1..Len(coll) : coll[i]["supabase_user_id"] = u}
    IN  IF hits = {} THEN None
        ELSE Some(coll[CHOOSE i \in hits : \A j \in hits : i <= j])

\* one "$set" of a (dotted) field path: "a" is <<"a">>, "a.b" is <<"a", "b">>;
\* a missing parent is created as an empty mapping
RECURSIVE SetPath(_, _, _)
SetPath(doc, path, v) ==
    IF Len(path) = 1
    THEN [x \in DOMAIN doc \cup {path[1]} |-> IF x = path[1] THEN v ELSE doc[x]]
    ELSE LET sub == IF path[1] \in DOMAIN doc THEN doc[path[1]] ELSE <<>>
             new == SetPath(sub, Tail(path), v)
         IN  [x \in DOMAIN doc \cup {path[1]} |->
                 IF x = path[1] THEN new ELSE doc[x]]

\* variant of SetFields that keeps the value of a field the document has
RECURSIVE SetFields_keep(_, _)
SetFields_keep(doc, upd) ==
    IF upd = <<>> THEN doc
    ELSE IF Len(Head(upd)[1]) = 1 /\ Head(upd)[1][1] \in DOMAIN doc
         THEN SetFields_keep(doc, Tail(upd))
         ELSE SetFields_keep(SetPath(doc, Head(upd)[1], Head(upd)[2]), Tail(upd))

\* {"$set": upd} applied to one document; upd is a sequence of <<path, value>>
RECURSIVE SetFields(_, _)
SetFields(doc, upd) ==
    IF upd = <<>> THEN doc
    ELSE SetFields(SetPath(doc, Head(upd)[1], Head(upd)[2]), Tail(upd))

\* variant of update_one that updates the first document of the collection,
\* whichever user's it is
update_one_any(coll, u, upd, upsert) ==
    IF coll # <<>>
    THEN [coll EXCEPT ![1] = SetFields(coll[1], upd)]
    ELSE IF upsert
         THEN Append(coll, SetFields([supabase_user_id |-> u], upd))
         ELSE coll

\* update_one(filter by user id, {"$set": upd}, upsert): the first matching
\* document is updated; without a match, an upsert inserts the filter's
\* field together with the fields that are set
update_one(coll, u, upd, upsert) ==
    LET hits == {i \in 1..Len(coll) : coll[i]["supabase_user_id"] = u}
    IN  IF hits # {}
        THEN LET k == CHOOSE i \in hits : \A j \in hits : i <= j
             IN  [coll EXCEPT ![k] = SetFields(coll[k], upd)]
        ELSE IF upsert
             THEN Append(coll, SetFields([supabase_user_id |-> u], upd))
             ELSE coll

insert_one(coll, doc) == Append(coll, doc)

upserted_id(coll, u) == find_one(coll, u) = None

\* dict.get(key, default)
get(doc, key, default) == IF key \in DOMAIN doc THEN doc[key] ELSE default

EmptyMap == <<>>

\* a field that holds null is kept as a designated value of the field's
\* type: of the answers, and of the saved_card_plans mapping
NullAnswers == {"null"}
NullPlans == [k \in {"null"} |-> "null"]

\* variant of get_or without the `or`: the default for a missing key only
get_or_missing(doc, key, null, default) ==
    IF key \in DOMAIN doc THEN doc[key] ELSE default

\* `user_doc.get(key, {}) or {}`: the default also for null and for empty
get_or(doc, key, null, default) ==
    IF key \in DOMAIN doc /\ doc[key] # null THEN doc[key] ELSE default

----------------------------------------------------------------------------
(* Parsed model responses.  A JSON value is kept by what the validators     *)
(* look at: its type, the keys it holds (the keys of a mapping, the string  *)
(* elements of a list, the key names occurring in a string), the items of   *)
(* a list, and the keyFeatures and extraTips values of a mapping            *)

RecKeySeq == <<"name", "imageUrl", "interestRate", "description", "bullets">>

PlanKeySeq ==
    <<"name", "issuer", "category", "annualFee", "rewardRate", "keyFeatures",
      "spendingTip", "upgradePathTip", "monthlyOptimizationTip", "extraTips">>

Range(s) == {s[i] : i \in 1..Len(s)}

RecKeys == Range(RecKeySeq)
PlanKeys == Range(PlanKeySeq)

\* the lengths the validators ask for
NumRecs == 3
NumBullets == 4
NumKeyFeatures == 5
NumExtraTips == 3

Arr(t, elems) == [t |-> t, elems |-> elems]
Strs(n) == [i \in 1..n |-> "str"]

Item(t, has, bullets, name) ==
    [t |-> t, has |-> has, bullets |-> bullets, name |-> name]

JVal(t, has, items, kf, et, tag) ==
    [t |-> t, has |-> has, items |-> items, keyFeatures |-> kf,
     extraTips |-> et, tag |-> tag]

NullArr == Arr("null", <<>>)
NullVal == JVal("null", {}, <<>>, NullArr, NullArr, "")

\* response.text: None, or a text that is empty, prose or the JSON encoding
\* of a value, with or without surrounding whitespace
Text(kind, ws, val) == [kind |-> kind, ws |-> ws, val |-> val]

\* what generate_content_async gives: an exception, or a response
ModelOut(err, text) == [err |-> err, text |-> text]

UpstreamError == ModelOut(TRUE, Text("none", FALSE, NullVal))
Answer(text) == ModelOut(FALSE, text)

\* str.strip() on a response text
strip_text(text) == [text EXCEPT !.ws = FALSE]

\* text.strip() == "" (a text of whitespace alone strips to the empty text)
is_empty(text) == text.kind = "empty"

\* json.loads: the value, or None for the JSONDecodeError
json_loads(text) == IF text.kind = "json" THEN Some(text.val) ELSE None

----------------------------------------------------------------------------
(* The validators, check by check in the order of the code; the result is  *)
(* "ok" or the error the first failing check raises                        *)

\* `key not in x`: a TypeError on a number or null, membership otherwise
RECURSIVE first_missing(_, _)
first_missing(keys, has) ==
    IF keys = <<>> THEN None
    ELSE IF Head(keys) \notin has THEN Some(Head(keys))
    ELSE first_missing(Tail(keys), has)

check_item(item) ==
    IF item.t \in {"num", "null"} THEN "TypeError"
    ELSE IF first_missing(RecKeySeq, item.has) # None THEN "Missing key"
    ELSE IF item.t # "map" THEN "TypeError"
    ELSE IF item.bullets.t # "list" \/ Len(item.bullets.elems) # NumBullets
         THEN "bullets must be an array of exactly 4 items"
    ELSE "ok"

RECURSIVE check_items(_)
check_items(items) ==
    IF items = <<>> THEN "ok"
    ELSE IF check_item(Head(items)) # "ok" THEN check_item(Head(items))
    ELSE check_items(Tail(items))

validate_recommendations(data) ==
    IF data.t # "list" \/ Len(data.items) # NumRecs
    THEN "Model did not return exactly 3 items"
    ELSE check_items(data.items)

\* variant of validate_plan that leaves out the check of extraTips
validate_plan_no_tips(plan) ==
    IF plan.t \in {"num", "null"} THEN "TypeError"
    ELSE IF first_missing(PlanKeySeq, plan.has) # None THEN "Missing key"
    ELSE IF plan.t # "map" THEN "AttributeError"
    ELSE IF plan.keyFeatures.t # "list"
            \/ Len(plan.keyFeatures.elems) # NumKeyFeatures
         THEN "keyFeatures must have exactly 5 items"
    ELSE "ok"

validate_plan(plan) ==
    IF plan.t \in {"num", "null"} THEN "TypeError"
    ELSE IF first_missing(PlanKeySeq, plan.has) # None THEN "Missing key"
    ELSE IF plan.t # "map" THEN "AttributeError"
    ELSE IF plan.keyFeatures.t # "list"
            \/ Len(plan.keyFeatures.elems) # NumKeyFeatures
         THEN "keyFeatures must have exactly 5 items"
    ELSE IF plan.extraTips.t # "list"
            \/ Len(plan.extraTips.elems) # NumExtraTips
         THEN "extraTips must have exactly 3 items"
    ELSE "ok"

\* response.text.strip() and json.loads: "ok", or the exception raised
decode_error(out) ==
    IF out.err THEN "upstream error"
    ELSE IF out.text.kind = "none" THEN "AttributeError"
    ELSE IF json_loads(strip_text(out.text)) = None THEN "JSONDecodeError"
    ELSE "ok"

decoded(out) == json_loads(strip_text(out.text))[1]

\* the try block of get_recommendations up to the store update
recommendations_error(out) ==
    IF decode_error(out) # "ok" THEN decode_error(out)
    ELSE validate_recommendations(decoded(out))

\* the try block of save_card up to the store update
plan_error(out) ==
    IF decode_error(out) # "ok" THEN decode_error(out)
    ELSE validate_plan(decoded(out))

\* the try block of chat: reply = (response.text or "").strip()
chat_error(out) ==
    IF out.err THEN "upstream error"
    ELSE IF out.text.kind = "none" \/ is_empty(strip_text(out.text))
         THEN "Empty response from model"
    ELSE "ok"

----------------------------------------------------------------------------
(* Inputs: what the completion service may answer *)

GoodBullets == Arr("list", Strs(NumBullets))
GoodItem(name) == Item("map", RecKeys, GoodBullets, name)

BulletShapes ==
    {Arr("list", Strs(n)) : n \in (NumBullets - 1)..(NumBullets + 1)}
    \cup {Arr("list", [Strs(NumBullets) EXCEPT ![i] = "num"]) : i \in 1..NumBullets}
    \cup {Arr("str", <<>>), NullArr}

ItemShapes ==
    {GoodItem("x"), GoodItem("y")}
    \cup {Item("map", RecKeys \ {k}, GoodBullets, "x") : k \in RecKeys}
    \cup {Item("map", RecKeys, b, "x") : b \in BulletShapes}
    \cup {Item(t, RecKeys, NullArr, "x") : t \in {"list", "str"}}
    \cup {Item(t, {}, NullArr, "x") : t \in {"num", "null"}}

List(items) == JVal("list", {}, items, NullArr, NullArr, "")

GoodRecs(name) == List([i \in 1..NumRecs |-> GoodItem(name)])

\* lists of 3 items of which at most one departs from a good item, lists of
\* other lengths, and values that are no list
RecValuesWide ==
    {List([GoodRecs("x").items EXCEPT ![i] = it]) :
        i \in 1..NumRecs, it \in ItemShapes}
    \cup {List([i \in 1..n |-> GoodItem("x")]) : n \in 0..(NumRecs + 1)}
    \cup {GoodRecs("y")}
    \cup {JVal(t, RecKeys, <<>>, NullArr, NullArr, "") : t \in {"map", "str"}}
    \cup {JVal(t, {}, <<>>, NullArr, NullArr, "") : t \in {"num", "null"}}

RecValues == {GoodRecs("x"), GoodRecs("y"), List(<<GoodItem("x"), GoodItem("x")>>)}

Plan(has, kf, et, tag) == JVal("map", has, <<>>, kf, et, tag)

GoodPlan(tag) ==
    Plan(PlanKeys, Arr("list", Strs(NumKeyFeatures)),
         Arr("list", Strs(NumExtraTips)), tag)

TipShapes(n) ==
    {Arr("list", Strs(m)) : m \in (n - 1)..(n + 1)}
    \cup {Arr("list", [Strs(n) EXCEPT ![1] = "num"]), Arr("str", <<>>), NullArr}

StrItem(k) == Item("str", {k}, NullArr, k)

PlanValuesWide ==
    {Plan(PlanKeys, kf, et, "p1") :
        kf \in TipShapes(NumKeyFeatures), et \in TipShapes(NumExtraTips)}
    \cup {GoodPlan("p2")}
    \cup {Plan(PlanKeys \ {k}, GoodPlan("p1").keyFeatures,
               GoodPlan("p1").extraTips, "p1") : k \in PlanKeys}
    \cup {JVal("list", PlanKeys, [i \in 1..Len(PlanKeySeq) |-> StrItem(PlanKeySeq[i])],
               NullArr, NullArr, ""),
          JVal("str", PlanKeys, <<>>, NullArr, NullArr, ""),
          JVal("num", {}, <<>>, NullArr, NullArr, ""),
          NullVal,
          GoodRecs("x")}

PlanValues ==
    {GoodPlan("p1"), GoodPlan("p2"),
     Plan(PlanKeys, Arr("list", Strs(NumKeyFeatures - 1)),
          Arr("list", Strs(NumExtraTips)), "p1")}

NoJson ==
    {UpstreamError,
     Answer(Text("none", FALSE, NullVal)),
     Answer(Text("empty", FALSE, NullVal)),
     Answer(Text("empty", TRUE, NullVal)),
     Answer(Text("prose", FALSE, NullVal))}

Outputs(values) ==
    NoJson \cup {Answer(Text("json", ws, v)) : ws \in BOOLEAN, v \in values}

ChatOutputs ==
    {UpstreamError,
     Answer(Text("none", FALSE, NullVal)),
     Answer(Text("empty", TRUE, NullVal)),
     Answer(Text("prose", TRUE, NullVal))}

----------------------------------------------------------------------------
(* Requests *)

Profile(email, firstName, lastName) ==
    [email |-> email, firstName |-> firstName, lastName |-> lastName]

\* the context a prompt embeds
Prompt(task, answers, card, cards, plans, recs, profile, message) ==
    [task |-> task, answers |-> answers, card |-> card, cards |-> cards,
     plans |-> plans, recs |-> recs, profile |-> profile, message |-> message]

NoPrompt == Prompt("", {}, None, <<>>, EmptyMap, List(<<>>),
                   Profile(None, None, None), "")

\* the body of a request: the fields of UserAnswers, SaveCardRequest and
\* OnboardUserRequest
Payload(answers, metadata, card_id, name, firstName, lastName) ==
    [answers |-> answers, metadata |-> metadata, card_id |-> card_id,
     name |-> name, firstName |-> firstName, lastName |-> lastName]

NoPayload == Payload({}, {}, None, None, None, None)

\* a request suspended between its two steps, with the locals it holds
Req(op, user, id, payload, card, prompt, calls, existing) ==
    [op |-> op, user |-> user, id |-> id, payload |-> payload, card |-> card,
     prompt |-> prompt, calls |-> calls, existing |-> existing]


\* the most recently answered request and its response: the request's
\* payload, the status and detail of the response, the model output the
\* request consumed (if any), whether its store update was applied, the flag
\* of the body (upserted, is_new_user), the card of the body, the number of
\* calls of the completion service the request made, the body of a
\* saved-cards response, and (prev) which request was answered before this one
Answered(id, op, user, payload, status, wrote) ==
    [id |-> id, op |-> op, user |-> user, payload |-> payload,
     status |-> status, wrote |-> wrote]

Reply(id, op, user, payload, status, detail, out, wrote, flag, card, calls) ==
    [id |-> id, op |-> op, user |-> user, payload |-> payload,
     status |-> status, detail |-> detail, out |-> out, wrote |-> wrote,
     flag |-> flag, card |-> card, calls |-> calls, body |-> None,
     prev |-> Answered(lastReply.id, lastReply.op, lastReply.user,
                       lastReply.payload, lastReply.status, lastReply.wrote)]

\* inflight is the sequence of the suspended requests, oldest first
Slots == 1..MaxInFlight

CanSuspend == Len(inflight) < MaxInFlight

Suspend(r) == Append(inflight, r)

Resume(s) == [i \in 1..(Len(inflight) - 1) |->
                IF i < s THEN inflight[i] ELSE inflight[i + 1]]

Running(s, op) == s <= Len(inflight) /\ inflight[s].op = op

CanStart == nreq < MaxReqs

Email(u) == IF u = "u1" THEN "u1@mail" ELSE "u2@mail"

Init ==
    /\ store = <<>>
    /\ inflight = <<>>
    /\ nreq = 0
    /\ lastReply = [id |-> 0, op |-> "none", user |-> "", payload |-> NoPayload,
                    status |-> 0, detail |-> "", out |-> None, wrote |-> FALSE,
                    flag |-> FALSE, card |-> None, calls |-> 0, body |-> None,
                    prev |-> Answered(0, "none", "", NoPayload, 0, FALSE)]
    /\ submitted = {}

----------------------------------------------------------------------------
(* POST /submit-answers: AuthenticatedController.save_answers *)

\* variant of upsert_answers that inserts a document on every submission
upsert_answers_insert(coll, u, answers, metadata) ==
    insert_one(coll, [supabase_user_id |-> u, answers |-> answers,
                      answers_metadata |-> metadata])

\* update_one({"supabase_user_id": user.id}, {"$set": ...}, upsert=True)
upsert_answers(coll, u, answers, metadata) ==
    update_one(coll, u,
        << <<(<<"answers">>), answers>>,
           <<(<<"answers_metadata">>), metadata>> >>, TRUE)

save_answers(u, answers, metadata, writeOk) ==
    /\ CanStart
    /\ nreq' = nreq + 1
    /\ LET p == Payload(answers, metadata, None, None, None, None)
       IN  IF writeOk
           THEN /\ store' = upsert_answers(store, u, answers, metadata)
                /\ submitted' = submitted \cup {u}
                /\ lastReply' = Reply(nreq + 1, "submit_answers", u, p, 200,
                        "Answers saved successfully", None, TRUE,
                        upserted_id(store, u), None, 0)
           ELSE /\ UNCHANGED <<store, submitted>>
                /\ lastReply' = Reply(nreq + 1, "submit_answers", u, p, 500,
                        "store error", None, FALSE, FALSE, None, 0)
    /\ UNCHANGED inflight

----------------------------------------------------------------------------
(* POST /api/public/onboard: PublicController.onboard_user *)

new_user_data(u, firstName, lastName) ==
    [supabase_user_id |-> u, email |-> Email(u), firstName |-> firstName,
     lastName |-> lastName, answers |-> {}, gemini_recommendations |-> List(<<>>),
     saved_cards |-> <<>>, created_at |-> "now", is_active |-> TRUE]

\* the fields an existing user's profile update sets
update_data(firstName, lastName) ==
    (IF firstName # None THEN << <<(<<"firstName">>), firstName>> >> ELSE <<>>)
    \o (IF lastName # None THEN << <<(<<"lastName">>), lastName>> >> ELSE <<>>)

\* first step: existing_user = find_one(...)
onboard_find(u, firstName, lastName) ==
    /\ CanStart
    /\ CanSuspend
    /\ nreq' = nreq + 1
    /\ inflight' = Suspend(
            Req("onboard_user", u, nreq + 1,
                Payload({}, {}, None, None, firstName, lastName),
                None, NoPrompt, 0, find_one(store, u) # None))
    /\ UNCHANGED <<store, lastReply, submitted>>

\* second step: update_one of the existing profile, or insert_one
onboard_write(s, writeOk) ==
    /\ Running(s, "onboard_user")
    /\ LET r == inflight[s]
           upd == update_data(r.payload.firstName, r.payload.lastName)
           failed == Reply(r.id, r.op, r.user, r.payload, 500,
                           "Failed to onboard user", None, FALSE, FALSE, None, 0)
       IN  IF r.existing
           THEN IF upd = <<>> \/ writeOk
                THEN /\ store' = IF upd = <<>> THEN store
                                 ELSE update_one(store, r.user, upd, FALSE)
                     /\ lastReply' = Reply(r.id, r.op, r.user, r.payload, 201,
                            "User profile updated successfully", None,
                            upd # <<>>, FALSE, None, 0)
                ELSE /\ UNCHANGED store
                     /\ lastReply' = failed
           ELSE IF writeOk
                THEN /\ store' = insert_one(store,
                            new_user_data(r.user, r.payload.firstName,
                                          r.payload.lastName))
                     /\ lastReply' = Reply(r.id, r.op, r.user, r.payload, 201,
                            "User onboarded successfully", None, TRUE, TRUE,
                            None, 0)
                ELSE /\ UNCHANGED store
                     /\ lastReply' = failed
    /\ inflight' = Resume(s)
    /\ UNCHANGED <<nreq, submitted>>

----------------------------------------------------------------------------
(* GET /recommendations: get_recommendations *)

\* variant of generate_content_async that repeats the call once
generate_content_async_retry(calls) == calls + 2

\* one call of model.generate_content_async
generate_content_async(calls) == calls + 1

\* variant of recommendations_store that stores the parsed value before
\* the checks run
recommendations_store_unchecked(coll, u, out, writeOk) ==
    IF decode_error(out) = "ok" /\ writeOk
    THEN update_one(coll, u,
            << <<(<<"gemini_recommendations">>), decoded(out)>> >>, FALSE)
    ELSE coll

\* the store after the try block: the update runs after the checks passed
recommendations_store(coll, u, out, writeOk) ==
    IF recommendations_error(out) = "ok" /\ writeOk
    THEN update_one(coll, u,
            << <<(<<"gemini_recommendations">>), decoded(out)>> >>, FALSE)
    ELSE coll

\* the status of the response: any exception of the try block, the one of
\* update_one included, becomes HTTPException(500)
recommendations_status(out, writeOk) ==
    IF recommendations_error(out) = "ok" /\ writeOk THEN 200 ELSE 500

\* lines 72-74: the guard on the stored answers
answers_missing(user_doc) ==
    user_doc = None \/ "answers" \notin DOMAIN user_doc[1]

get_recommendations_start(u, cardsOk) ==
    /\ CanStart
    /\ nreq' = nreq + 1
    /\ LET user_doc == find_one(store, u)
           id == nreq + 1
       IN  IF answers_missing(user_doc)
           THEN /\ lastReply' = Reply(id, "get_recommendations", u, NoPayload,
                        404, "User answers not found", None, FALSE, FALSE,
                        None, 0)
                /\ UNCHANGED inflight
           ELSE IF load_cards(cardsOk) = None
           THEN /\ lastReply' = Reply(id, "get_recommendations", u, NoPayload,
                        500, "Failed to load cards data", None, FALSE, FALSE,
                        None, 0)
                /\ UNCHANGED inflight
           ELSE /\ CanSuspend
                /\ inflight' = Suspend(
                        Req("get_recommendations", u, id, NoPayload, None,
                            Prompt("recommend_top3", get(user_doc[1], "answers", {}),
                                   None, load_cards(cardsOk)[1], EmptyMap,
                                   List(<<>>), Profile(None, None, None), ""),
                            generate_content_async(0), FALSE))
                /\ UNCHANGED lastReply
    /\ UNCHANGED <<store, submitted>>

get_recommendations_finish(s, out, writeOk) ==
    /\ Running(s, "get_recommendations")
    /\ LET r == inflight[s]
       IN  /\ store' = recommendations_store(store, r.user, out, writeOk)
           /\ lastReply' = Reply(r.id, r.op, r.user, r.payload,
                    recommendations_status(out, writeOk),
                    IF recommendations_error(out) # "ok"
                    THEN recommendations_error(out)
                    ELSE IF writeOk THEN "ok" ELSE "store error",
                    Some(out), recommendations_error(out) = "ok" /\ writeOk,
                    FALSE, None, r.calls)
    /\ inflight' = Resume(s)
    /\ UNCHANGED <<nreq, submitted>>

----------------------------------------------------------------------------
(* POST /save-card: save_card *)

\* next((c for c in cards if pred(c)), None)
RECURSIVE first_by_id(_, _)
first_by_id(cards, id) ==
    IF cards = <<>> THEN None
    ELSE IF Head(cards).id = id THEN Some(Head(cards))
    ELSE first_by_id(Tail(cards), id)

RECURSIVE first_by_name(_, _)
first_by_name(cards, lname) ==
    IF cards = <<>> THEN None
    ELSE IF lower(strip(Head(cards).name)) = lname THEN Some(Head(cards))
    ELSE first_by_name(Tail(cards), lname)

\* variant of lookup_card that tries the name before the card_id
lookup_card_name_first(cards, card_id, name) ==
    LET byName == IF name # None /\ name[1] # <<>>
                  THEN first_by_name(cards, lower(strip(name[1]))) ELSE None
    IN  IF byName = None /\ card_id # None /\ card_id[1] # ""
        THEN first_by_id(cards, card_id[1])
        ELSE byName

\* 1) lookup of the selected card: by card_id when one is given, and by
\*    name when that found nothing and a name is given
lookup_card(cards, card_id, name) ==
    LET byId == IF card_id # None /\ card_id[1] # ""
                THEN first_by_id(cards, card_id[1]) ELSE None
    IN  IF byId = None /\ name # None /\ name[1] # <<>>
        THEN first_by_name(cards, lower(strip(name[1])))
        ELSE byId

\* variant of saved_snapshot that takes the id from the head of the catalog
saved_snapshot_head_id(card) ==
    [id |-> Catalog[1].id, name |-> card.name, issuer |-> card.issuer,
     card_type |-> card.card_type, annual_fee |-> card.annual_fee,
     apr_range |-> card.apr_range, image_url |-> card.image_url]

\* 2) the minimal card snapshot
saved_snapshot(card) ==
    [id |-> card.id, name |-> card.name, issuer |-> card.issuer,
     card_type |-> card.card_type, annual_fee |-> card.annual_fee,
     apr_range |-> card.apr_range, image_url |-> card.image_url]

\* variant of set_card_plan that sets the whole saved_card_plans mapping
set_card_plan_replace(coll, u, card, plan) ==
    update_one(coll, u,
        << <<(<<"saved_card_plans">>),
             [x \in {card.id} |->
                [card |-> saved_snapshot(card), plan |-> plan]]>> >>, TRUE)

\* 4) the "$set" of saved_card_plans.<card_id>, with upsert
set_card_plan(coll, u, card, plan) ==
    update_one(coll, u,
        << <<(<<"saved_card_plans", card.id>>),
             [card |-> saved_snapshot(card), plan |-> plan]>> >>, TRUE)

\* variant of save_card_store that keeps the entry a card already has
save_card_store_keep_first(coll, u, card, out, writeOk) ==
    IF plan_error(out) = "ok" /\ card.id # "" /\ writeOk
       /\ ~(find_one(coll, u) # None
            /\ "saved_card_plans" \in DOMAIN find_one(coll, u)[1]
            /\ card.id \in DOMAIN find_one(coll, u)[1]["saved_card_plans"])
    THEN set_card_plan(coll, u, card, decoded(out))
    ELSE coll

\* the store after the try block: persistence runs after the checks passed,
\* only for a card that has an id, and its failure is swallowed
save_card_store(coll, u, card, out, writeOk) ==
    IF plan_error(out) = "ok" /\ card.id # "" /\ writeOk
    THEN set_card_plan(coll, u, card, decoded(out))
    ELSE coll

save_card_status(out, writeOk) ==
    IF plan_error(out) = "ok" THEN 200 ELSE 500

save_card_start(u, card_id, name, cardsOk) ==
    /\ CanStart
    /\ nreq' = nreq + 1
    /\ LET id == nreq + 1
           p == Payload({}, {}, card_id, name, None, None)
           cards == load_cards(cardsOk)
           card == lookup_card(cards[1], card_id, name)
           user_doc == IF find_one(store, u) = None
                       THEN <<>> ELSE find_one(store, u)[1]
       IN  IF cards = None
           THEN /\ lastReply' = Reply(id, "save_card", u, p, 500,
                        "Failed to load cards data", None, FALSE, FALSE, None, 0)
                /\ UNCHANGED inflight
           ELSE IF card = None
           THEN /\ lastReply' = Reply(id, "save_card", u, p, 404,
                        "Selected card not found", None, FALSE, FALSE, None, 0)
                /\ UNCHANGED inflight
           ELSE /\ CanSuspend
                /\ inflight' = Suspend(
                        Req("save_card", u, id, p, card,
                            Prompt("guidance_plan", get(user_doc, "answers", {}),
                                   card, <<>>, EmptyMap, List(<<>>),
                                   Profile(None, None, None), ""),
                            generate_content_async(0), FALSE))
                /\ UNCHANGED lastReply
    /\ UNCHANGED <<store, submitted>>

save_card_finish(s, out, writeOk) ==
    /\ Running(s, "save_card")
    /\ LET r == inflight[s]
       IN  /\ store' = save_card_store(store, r.user, r.card[1], out, writeOk)
           /\ lastReply' = Reply(r.id, r.op, r.user, r.payload,
                    save_card_status(out, writeOk), plan_error(out), Some(out),
                    plan_error(out) = "ok" /\ r.card[1].id # "" /\ writeOk,
                    FALSE, r.card, r.calls)
    /\ inflight' = Resume(s)
    /\ UNCHANGED <<nreq, submitted>>

----------------------------------------------------------------------------
(* GET /saved-cards: get_saved_cards *)

SnapshotKeys ==
    {"id", "name", "issuer", "card_type", "annual_fee", "apr_range", "image_url"}

\* isinstance(value, dict) and "card" in value: a stored {card, plan} pair
\* has the field card; a legacy value is a plan alone, or null
is_snapshot_entry(value) == "card" \in DOMAIN value

\* an output object: the snapshot keys that have a value, with it (fields),
\* the snapshot keys that hold null (nulls), and the value under the key
\* plan when the object has that key (None when it has not)
OutItem(fields, nulls, plan) == [fields |-> fields, nulls |-> nulls, plan |-> plan]

\* snap_min: the seven snapshot keys, each with snap.get(key)
snap_min(snap, plan) ==
    OutItem([k \in SnapshotKeys \cap DOMAIN snap |-> snap[k]],
            SnapshotKeys \ DOMAIN snap, plan)

\* variant of saved_cards_item that answers with the catalog's card of the
\* entry's key also for an entry that has a snapshot
saved_cards_item_current(cid, value, include_plans, cards_catalog) ==
    LET found == first_by_id(cards_catalog, cid)
        snap == IF found = None THEN [id |-> cid] ELSE found[1]
    IN  snap_min(snap,
                 IF ~include_plans THEN None
                 ELSE IF ~is_snapshot_entry(value) THEN Some(value)
                 ELSE Some(IF "plan" \in DOMAIN value THEN value.plan
                           ELSE NullVal))

\* the output item of one entry
saved_cards_item(cid, value, include_plans, cards_catalog) ==
    IF is_snapshot_entry(value)
    THEN OutItem(value.card, {},
                 IF include_plans
                 THEN Some(IF "plan" \in DOMAIN value THEN value.plan
                           ELSE NullVal)
                 ELSE None)
    ELSE LET found == first_by_id(cards_catalog, cid)
             snap == IF found = None THEN [id |-> cid] ELSE found[1]
         IN  snap_min(snap, IF include_plans THEN Some(value) ELSE None)

\* the handler has no await: one step.  The body keeps the items by the key
\* they come from (the list has them in the order of the stored mapping),
\* and, next to them, the include_plans of the request and what became of
\* the catalog: not asked for, loaded, or failed to load
get_saved_cards(u, card_id, include_plans, cardsOk) ==
    /\ CanStart
    /\ nreq' = nreq + 1
    /\ LET user_doc == IF find_one(store, u) = None
                       THEN <<>> ELSE find_one(store, u)[1]
           saved_card_plans ==
                get_or(user_doc, "saved_card_plans", NullPlans, EmptyMap)
           keys == {k \in DOMAIN saved_card_plans :
                        card_id = None \/ card_id[1] = "" \/ k = card_id[1]}
           legacy == {k \in keys : ~is_snapshot_entry(saved_card_plans[k])}
           cards_catalog == IF load_cards(cardsOk) = None
                            THEN <<>> ELSE load_cards(cardsOk)[1]
       IN  lastReply' =
             [Reply(nreq + 1, "saved_cards", u,
                    Payload({}, {}, card_id, None, None, None),
                    200, "ok", None, FALSE, FALSE, None, 0)
              EXCEPT !.body = Some(
                [saved_cards |->
                    [k \in keys |->
                        saved_cards_item(k, saved_card_plans[k], include_plans,
                                         cards_catalog)],
                 include_plans |-> include_plans,
                 catalog |-> IF legacy = {} THEN "not asked for"
                             ELSE IF cardsOk THEN "loaded" ELSE "failed"])]
    /\ UNCHANGED <<store, inflight, submitted>>

----------------------------------------------------------------------------
(* POST /chat: chat *)

chat_start(u, cardsOk) ==
    /\ CanStart
    /\ CanSuspend
    /\ nreq' = nreq + 1
    /\ LET user_doc == IF find_one(store, u) = None
                       THEN <<>> ELSE find_one(store, u)[1]
           cards_catalog == IF load_cards(cardsOk) = None
                            THEN <<>> ELSE load_cards(cardsOk)[1]
       IN  inflight' = Suspend(
                Req("chat", u, nreq + 1, NoPayload, None,
                    Prompt("chat_advice",
                           get_or(user_doc, "answers", NullAnswers, {}), None,
                           cards_catalog,
                           get_or(user_doc, "saved_card_plans", NullPlans,
                                  EmptyMap),
                           get_or(user_doc, "gemini_recommendations", NullVal,
                                  List(<<>>)),
                           Profile(IF "email" \in DOMAIN user_doc
                                   THEN Some(user_doc["email"]) ELSE None,
                                   get(user_doc, "firstName", None),
                                   get(user_doc, "lastName", None)),
                           "hi"),
                    generate_content_async(0), FALSE))
    /\ UNCHANGED <<store, lastReply, submitted>>

chat_finish(s, out) ==
    /\ Running(s, "chat")
    /\ LET r == inflight[s]
       IN  lastReply' = Reply(r.id, r.op, r.user, r.payload,
                IF chat_error(out) = "ok" THEN 200 ELSE 500,
                chat_error(out), Some(out), FALSE, FALSE, None, r.calls)
    /\ inflight' = Resume(s)
    /\ UNCHANGED <<store, nreq, submitted>>

----------------------------------------------------------------------------
(* Inputs of the requests *)

AnswerInputs == {{"q1"}, {"q2"}}
MetadataInputs == {{"m"}}
FirstNames == {None, Some("Al")}
LastNames == {None}
CardIds == {Some("amex-1"), Some("chase-2"), Some("visa-123")}
Names == {None}
CardFilters == {None, Some("amex-1")}

RecOutputs ==
    {UpstreamError} \cup {Answer(Text("json", FALSE, v)) : v \in RecValues}
PlanOutputs ==
    {UpstreamError} \cup {Answer(Text("json", FALSE, v)) : v \in PlanValues}

----------------------------------------------------------------------------
(* The specification: concurrent requests of two users *)

Next ==
    \/ \E u \in Users, a \in AnswerInputs, m \in MetadataInputs, w \in BOOLEAN :
            save_answers(u, a, m, w)
    \/ \E u \in Users, f \in FirstNames, l \in LastNames : onboard_find(u, f, l)
    \/ \E s \in Slots, w \in BOOLEAN : onboard_write(s, w)
    \/ \E u \in Users, c \in BOOLEAN : get_recommendations_start(u, c)
    \/ \E s \in Slots, o \in RecOutputs, w \in BOOLEAN :
            get_recommendations_finish(s, o, w)
    \/ \E u \in Users, i \in CardIds, n \in Names, c \in BOOLEAN :
            save_card_start(u, i, n, c)
    \/ \E s \in Slots, o \in PlanOutputs, w \in BOOLEAN :
            save_card_finish(s, o, w)
    \/ \E u \in Users, c \in BOOLEAN : chat_start(u, c)
    \/ \E s \in Slots, o \in ChatOutputs : chat_finish(s, o)
    \/ \E u \in Users, i \in CardFilters, p \in BOOLEAN, c \in BOOLEAN :
            get_saved_cards(u, i, p, c)

Spec == Init /\ [][Next]_vars

----------------------------------------------------------------------------
(* A second specification: the requests of one user, one at a time, with   *)
(* the wide sets of payloads and of model responses                        *)

CardIdsWide == CardIds \cup {None, Some("")}

RECURSIVE Strings(_)
Strings(n) ==
    IF n = 0 THEN {<<>>}
    ELSE Strings(n - 1)
         \cup {Append(s, c) : s \in {t \in Strings(n - 1) : Len(t) = n - 1},
                               c \in Chars}

NamesWide == {None} \cup {Some(s) : s \in Strings(MaxNameLen)}

RecOutputsWide == Outputs(RecValuesWide)
PlanOutputsWide == Outputs(PlanValuesWide)

NoneInFlight == inflight = <<>>

\* no request that calls the completion service has been answered yet
SetUpOnly == lastReply.op \in {"none", "submit_answers", "onboard_user"}

\* a save-card request found by card_id alone gets every response of the
\* wide set, one found through its name the responses of Spec
PlanOutputsFor(r) ==
    IF r.payload.name = None THEN PlanOutputsWide ELSE PlanOutputs

NextWide ==
    \/ \E a \in AnswerInputs, m \in MetadataInputs, w \in BOOLEAN :
            SetUpOnly /\ NoneInFlight /\ save_answers("u1", a, m, w)
    \/ \E f \in FirstNames, l \in LastNames :
            SetUpOnly /\ NoneInFlight /\ onboard_find("u1", f, l)
    \/ \E s \in Slots, w \in BOOLEAN : onboard_write(s, w)
    \/ \E c \in BOOLEAN :
            SetUpOnly /\ NoneInFlight /\ get_recommendations_start("u1", c)
    \/ \E s \in Slots, o \in RecOutputsWide, w \in BOOLEAN :
            get_recommendations_finish(s, o, w)
    \/ \E i \in CardIdsWide, n \in NamesWide, c \in BOOLEAN :
            SetUpOnly /\ NoneInFlight /\ save_card_start("u1", i, n, c)
    \/ \E s \in Slots, w \in BOOLEAN :
            /\ s <= Len(inflight)
            /\ \E o \in PlanOutputsFor(inflight[s]) : save_card_finish(s, o, w)

SpecWide == Init /\ [][NextWide]_vars

----------------------------------------------------------------------------
(* A third specification: the requests that read the document of user u1,  *)
(* starting from a store that holds a document already: one the handlers    *)
(* above leave behind, or one of an earlier layout (a plan stored without   *)
(* its card snapshot, fields that hold null), which the read paths handle   *)

SubmittedDoc == upsert_answers(<<>>, "u1", {"q1"}, {"m"})[1]

RecommendedDoc ==
    SetFields(SubmittedDoc, << <<(<<"gemini_recommendations">>), GoodRecs("y")>> >>)

OnboardedDoc == new_user_data("u1", None, None)

SavedDoc == set_card_plan(<<SubmittedDoc>>, "u1", Catalog[1], GoodPlan("p1"))[1]

\* the snapshot of a card as the catalog had it at an earlier time
StaleSnapshot == [saved_snapshot(Catalog[2]) EXCEPT !.name = <<"A", "A">>]

LegacyPlans ==
    [k \in {"amex-1", "chase-2", "old-9"} |->
        IF k = "amex-1" THEN GoodPlan("p1")
        ELSE IF k = "old-9" THEN GoodPlan("p2")
        ELSE [card |-> StaleSnapshot, plan |-> GoodPlan("p1")]]

LegacyDoc ==
    [supabase_user_id |-> "u1", answers |-> {"q1"},
     saved_card_plans |-> LegacyPlans]

NullDoc ==
    [supabase_user_id |-> "u1", answers |-> NullAnswers,
     gemini_recommendations |-> NullVal, saved_card_plans |-> NullPlans]

BareDoc == [supabase_user_id |-> "u1"]

StoredDocs ==
    {SubmittedDoc, RecommendedDoc, OnboardedDoc, SavedDoc, LegacyDoc, NullDoc,
     BareDoc}

InitStored ==
    /\ store \in {<<>>} \cup {<<d>> : d \in StoredDocs}
    /\ inflight = <<>>
    /\ nreq = 0
    /\ lastReply = [id |-> 0, op |-> "none", user |-> "", payload |-> NoPayload,
                    status |-> 0, detail |-> "", out |-> None, wrote |-> FALSE,
                    flag |-> FALSE, card |-> None, calls |-> 0, body |-> None,
                    prev |-> Answered(0, "none", "", NoPayload, 0, FALSE)]
    /\ submitted = {u \in Users :
                        \E i \in 1..Len(store) :
                            /\ store[i]["supabase_user_id"] = u
                            /\ "answers_metadata" \in DOMAIN store[i]}

CardFiltersWide == {None, Some(""), Some("amex-1"), Some("chase-2"), Some("visa-123")}

NextStored ==
    \/ \E c \in BOOLEAN : get_recommendations_start("u1", c)
    \/ \E s \in Slots, o \in RecOutputs, w \in BOOLEAN :
            get_recommendations_finish(s, o, w)
    \/ \E c \in BOOLEAN : chat_start("u1", c)
    \/ \E s \in Slots, o \in ChatOutputs : chat_finish(s, o)
    \/ \E i \in CardFiltersWide, p \in BOOLEAN, c \in BOOLEAN :
            get_saved_cards("u1", i, p, c)

SpecStored == InitStored /\ [][NextStored]_vars

----------------------------------------------------------------------------
(* The specification with fairness: what the handlers do on their own they *)
(* do eventually (the second store operation of onboarding follows the     *)
(* first); a response of the completion service is not theirs to bring      *)
(* about, and no handler bounds its wait for one                            *)

SpecLive ==
    /\ Init
    /\ [][Next]_vars
    /\ WF_vars(\E s \in Slots, w \in BOOLEAN : onboard_write(s, w))

----------------------------------------------------------------------------
(* Properties *)

GenOps == {"get_recommendations", "save_card"}

\* this step sends a response
Answering == lastReply'.id # lastReply.id

\* the value of a field of the user's document, if there is one
Stored(coll, u, field) ==
    IF find_one(coll, u) # None /\ field \in DOMAIN find_one(coll, u)[1]
    THEN Some(find_one(coll, u)[1][field]) ELSE None

\* the entry of saved_card_plans the user has for a card id, if there is one
Entry(coll, u, A) ==
    IF Stored(coll, u, "saved_card_plans") # None
       /\ A \in DOMAIN Stored(coll, u, "saved_card_plans")[1]
    THEN Some(Stored(coll, u, "saved_card_plans")[1][A]) ELSE None

\* the checks the response's model output passed, by operation
OutputError(reply) ==
    IF reply.op = "get_recommendations" THEN recommendations_error(reply.out[1])
    ELSE plan_error(reply.out[1])

Parsed(out) == ~out.err /\ out.text.kind = "json"

\* the shape the recommendations must have: a list of 3 mappings with the
\* five keys, bullets a list of 4 strings
RecommendationsShape(v) ==
    /\ v.t = "list"
    /\ Len(v.items) = 3
    /\ \A i \in 1..Len(v.items) :
          /\ v.items[i].t = "map"
          /\ RecKeys \subseteq v.items[i].has
          /\ v.items[i].bullets.t = "list"
          /\ Len(v.items[i].bullets.elems) = 4
          /\ \A j \in 1..4 : v.items[i].bullets.elems[j] = "str"

\* C2: a recommendations request that reached the model succeeds exactly
\* when the response parses as a JSON array of 3 objects, each with the five
\* keys and with bullets an array of exactly 4 strings.
C2_SucceedsIffValid ==
    (lastReply.op = "get_recommendations" /\ lastReply.out # None)
        => (lastReply.status = 200
              <=> (Parsed(lastReply.out[1])
                   /\ RecommendationsShape(lastReply.out[1].text.val)))

\* the shape a plan must have: a mapping with the ten keys, keyFeatures a
\* list of 5, extraTips a list of 3
PlanShape(v) ==
    /\ v.t = "map"
    /\ PlanKeys \subseteq v.has
    /\ v.keyFeatures.t = "list" /\ Len(v.keyFeatures.elems) = 5
    /\ v.extraTips.t = "list" /\ Len(v.extraTips.elems) = 3

\* C3: a save-card request that reached the model is answered 200 exactly
\* when the response parses as a JSON mapping that has all ten plan keys,
\* with keyFeatures a list of 5 elements and extraTips a list of 3.
C3_PlanAcceptedIffShape ==
    (lastReply.op = "save_card" /\ lastReply.out # None)
        => (lastReply.status = 200
              <=> (Parsed(lastReply.out[1])
                   /\ PlanShape(lastReply.out[1].text.val)))

\* a save-card request rejected for a JSON list that holds all ten key names
C3_Witness ==
    /\ lastReply.op = "save_card"
    /\ lastReply.status = 500
    /\ lastReply.out # None
    /\ Parsed(lastReply.out[1])
    /\ lastReply.out[1].text.val.t = "list"
    /\ PlanKeys \subseteq lastReply.out[1].text.val.has

\* this step answers a save-card request with 200
SaveCardSucceeds ==
    Answering /\ lastReply'.op = "save_card" /\ lastReply'.status = 200

\* the {card, plan} pair of a save-card response
SavedPair(reply) ==
    [card |-> saved_snapshot(reply.card[1]), plan |-> decoded(reply.out[1])]

\* what the save of card A does to the user's document and to the others
SaveCardEffect ==
    LET u == lastReply'.user
        A == lastReply'.card[1].id
        old == find_one(store, u)
        new == find_one(store', u)
        rest(d) == DOMAIN d \ {"saved_card_plans"}
    IN  /\ Entry(store', u, A) = Some(SavedPair(lastReply'))
        /\ \A B \in (IF Stored(store, u, "saved_card_plans") = None THEN {}
                     ELSE DOMAIN Stored(store, u, "saved_card_plans")[1])
                    \cup DOMAIN Stored(store', u, "saved_card_plans")[1] :
              B # A => Entry(store', u, B) = Entry(store, u, B)
        /\ IF old = None
           THEN rest(new[1]) = {"supabase_user_id"}
           ELSE /\ rest(new[1]) = rest(old[1])
                /\ \A f \in rest(old[1]) : new[1][f] = old[1][f]
        /\ \A v \in Users \ {u} : find_one(store', v) = find_one(store, v)

\* C4 (as stated): a successful save-card for card id A sets exactly
\* saved_card_plans[A] to the new pair and leaves every other entry and
\* every other field of the document unchanged.
C4_SaveSetsOnlyEntry ==
    [][SaveCardSucceeds => SaveCardEffect]_vars

\* C4 (amended): the same, for a successful save-card whose store update
\* did not fail.
C4_SaveSetsOnlyEntryWhenStored ==
    [][(SaveCardSucceeds /\ lastReply'.wrote) => SaveCardEffect]_vars

\* a second card saved next to an earlier one
C4_Witness ==
    /\ lastReply.op = "save_card"
    /\ lastReply.status = 200
    /\ lastReply.wrote
    /\ Entry(store, lastReply.user, lastReply.card[1].id)
            = Some(SavedPair(lastReply))
    /\ Cardinality(DOMAIN Stored(store, lastReply.user, "saved_card_plans")[1]) = 2

\* this step answers the second of two successful save-card requests of one
\* user, in the order of their store updates
TwoSavesDone ==
    /\ SaveCardSucceeds
    /\ lastReply.op = "save_card"
    /\ lastReply.status = 200
    /\ lastReply.user = lastReply'.user

\* both saved entries are there; under one id, the later update's pair
BothSaved ==
    LET u == lastReply'.user
        A1 == lastReply.card[1].id
        A2 == lastReply'.card[1].id
    IN  /\ Entry(store', u, A2) = Some(SavedPair(lastReply'))
        /\ A1 # A2 => Entry(store', u, A1) = Some(SavedPair(lastReply))

\* C5 (as stated): for every interleaving of two successful save-card
\* requests of one user, different card ids leave both entries with their
\* own values, and the same id leaves the pair of the later store update.
C5_ConcurrentSaves ==
    [][TwoSavesDone => BothSaved]_vars

\* C5 (amended): the same, for two requests whose store updates did not fail.
C5_ConcurrentSavesWhenStored ==
    [][(TwoSavesDone /\ lastReply.wrote /\ lastReply'.wrote) => BothSaved]_vars

\* two overlapping saves of one user for different cards, the request that
\* arrived first answered last, both entries stored
C5_Witness ==
    /\ lastReply.op = "save_card" /\ lastReply.status = 200 /\ lastReply.wrote
    /\ lastReply.prev.op = "save_card" /\ lastReply.prev.status = 200
    /\ lastReply.prev.wrote
    /\ lastReply.prev.user = lastReply.user
    /\ lastReply.id < lastReply.prev.id
    /\ lastReply.prev.payload.card_id # lastReply.payload.card_id
    /\ Entry(store, lastReply.user, lastReply.prev.payload.card_id[1]) # None
    /\ Entry(store, lastReply.user, lastReply.card[1].id) # None

\* this step answers the second of two consecutive successful submissions
\* of one user with one payload
Resubmitted ==
    /\ lastReply.op = "submit_answers" /\ lastReply.status = 200
    /\ Answering
    /\ lastReply'.op = "submit_answers" /\ lastReply'.status = 200
    /\ lastReply'.user = lastReply.user
    /\ lastReply'.payload = lastReply.payload

\* C6: the second of two consecutive submit-answers calls of one user with
\* an identical payload leaves the store as the first call left it: answers
\* and answers_metadata as submitted, no second document for the user, no
\* other field changed.
C6_SubmitIdempotent ==
    [][Resubmitted =>
          /\ store' = store
          /\ Stored(store', lastReply'.user, "answers")
                = Some(lastReply'.payload.answers)
          /\ Stored(store', lastReply'.user, "answers_metadata")
                = Some(lastReply'.payload.metadata)
          /\ Cardinality({i \in 1..Len(store') :
                store'[i]["supabase_user_id"] = lastReply'.user}) = 1
      ]_vars

\* the same payload submitted twice in a row by one user, both answered 200
C6_Witness ==
    /\ lastReply.op = "submit_answers" /\ lastReply.status = 200
    /\ lastReply.prev.op = "submit_answers" /\ lastReply.prev.status = 200
    /\ lastReply.prev.user = lastReply.user
    /\ lastReply.prev.payload = lastReply.payload
    /\ Stored(store, lastReply.user, "answers") = Some(lastReply.payload.answers)

\* C7: a get-recommendations request of a user for whom no submit-answers
\* call has stored answers (no document, or a document created only by
\* onboarding) is answered 404 without a call of the completion service and
\* without a store write, so no such request is ever waiting for the model.
C7_NotFoundWithoutAnswers ==
    /\ \A s \in 1..Len(inflight) :
          inflight[s].op = "get_recommendations"
              => inflight[s].user \in submitted
    /\ (lastReply.op = "get_recommendations" /\ lastReply.user \notin submitted)
          => /\ lastReply.status = 404
             /\ lastReply.calls = 0
             /\ ~lastReply.wrote

\* the catalog entries a payload matches by id, and by trimmed and
\* case-folded name
IdMatch(p) == {c \in Range(Catalog) : p.card_id = Some(c.id)}

NameMatch(p) ==
    {c \in Range(Catalog) :
        p.name # None /\ lower(strip(c.name)) = lower(strip(p.name[1]))}

\* the card a request holds is the one its payload designates
FoundCard(p, card) ==
    /\ card # None
    /\ IF IdMatch(p) # {} THEN card[1] \in IdMatch(p)
       ELSE card[1] \in NameMatch(p)

\* C8: a save-card request for which the catalog was loaded is answered 404
\* exactly when its card_id is no catalog id and its trimmed, case-folded
\* name is no catalog name; then the completion service is not called and
\* the store is not written.  A request that found a card holds the card with
\* the id when there is one, else the card with the name, and its plan is
\* stored under that card's id.
C8_CardNotFound ==
    /\ [](/\ (lastReply.op = "save_card"
                /\ lastReply.detail # "Failed to load cards data")
              => (lastReply.status = 404
                    <=> (IdMatch(lastReply.payload) = {}
                         /\ NameMatch(lastReply.payload) = {}))
          /\ (lastReply.op = "save_card" /\ lastReply.card # None)
              => FoundCard(lastReply.payload, lastReply.card)
          /\ \A s \in 1..Len(inflight) :
                inflight[s].op = "save_card"
                    => FoundCard(inflight[s].payload, inflight[s].card))
    /\ [][ /\ (Answering /\ lastReply'.op = "save_card"
                 /\ lastReply'.status = 404)
              => /\ store' = store
                 /\ inflight' = inflight
                 /\ lastReply'.calls = 0
                 /\ lastReply'.out = None
           /\ (Answering /\ lastReply'.op = "save_card" /\ store' # store)
              => /\ Entry(store', lastReply'.user, lastReply'.card[1].id)
                     = Some(SavedPair(lastReply'))
                 /\ \A B \in DOMAIN Stored(store', lastReply'.user,
                                           "saved_card_plans")[1] :
                       B # lastReply'.card[1].id
                           => Entry(store', lastReply'.user, B)
                                = Entry(store, lastReply'.user, B)
         ]_vars

\* a payload whose card_id is one card's id and whose name is another
\* card's name in different case: the plan is stored under the id of the
\* card with that id
C8_Witness ==
    /\ lastReply.op = "save_card" /\ lastReply.status = 200 /\ lastReply.wrote
    /\ lastReply.payload.card_id = Some("amex-1")
    /\ lastReply.payload.name = Some(<<"A", "a">>)
    /\ NameMatch(lastReply.payload) # {}
    /\ IdMatch(lastReply.payload) # NameMatch(lastReply.payload)
    /\ Entry(store, lastReply.user, "amex-1") # None

\* C9: a recommendations or save-card request whose model output parsed and
\* passed every check is answered 200 with the generated object, whether or
\* not the store update that follows failed.
C9_StoreFailureNotFatal ==
    (lastReply.op \in GenOps /\ lastReply.out # None
        /\ OutputError(lastReply) = "ok")
        => lastReply.status = 200

\* C10: every get-recommendations, save-card and chat request calls the
\* completion service at most once, whatever comes back, and a request that
\* has been answered is not running again.
C10_AtMostOneCall ==
    /\ lastReply.calls <= 1
    /\ \A s \in 1..Len(inflight) :
          /\ inflight[s].calls <= 1
          /\ inflight[s].id # lastReply.id
          /\ \A t \in 1..Len(inflight) :
                inflight[t].id = inflight[s].id => t = s

\* a chat request answered 500 for an empty model response, after one call
C10_Witness ==
    /\ lastReply.op = "chat"
    /\ lastReply.status = 500
    /\ lastReply.out # None
    /\ ~lastReply.out[1].err
    /\ lastReply.calls = 1

\* this step suspends a new request at its call of the completion service
Starting(op) ==
    /\ ~Answering
    /\ Len(inflight') = Len(inflight) + 1
    /\ inflight'[Len(inflight')].op = op

\* C11: a successful get-recommendations leaves as the user's stored list
\* the list it returns, whole, whatever was stored before and whichever
\* other request of the user was answered before it; the stored list is the
\* one of the request answered last; and a chat request takes as prior
\* recommendations the list stored when it reads the document.
C11_RecommendationsOverwritten ==
    /\ []((lastReply.op = "get_recommendations" /\ lastReply.status = 200)
            => Stored(store, lastReply.user, "gemini_recommendations")
                 = Some(decoded(lastReply.out[1])))
    /\ [][ /\ (Answering /\ lastReply'.op = "get_recommendations"
                 /\ lastReply'.status = 200)
              => Stored(store', lastReply'.user, "gemini_recommendations")
                   = Some(decoded(lastReply'.out[1]))
           /\ Starting("chat")
              => LET r == inflight'[Len(inflight')]
                     kept == Stored(store, r.user, "gemini_recommendations")
                 IN  r.prompt.recs
                       = IF kept = None \/ kept = Some(NullVal)
                         THEN List(<<>>) ELSE kept[1]
         ]_vars

\* two overlapping successful requests of one user that returned different
\* lists, the one that arrived first answered last: its list is the stored one
C11_Witness ==
    /\ lastReply.op = "get_recommendations" /\ lastReply.status = 200
    /\ lastReply.prev.op = "get_recommendations" /\ lastReply.prev.status = 200
    /\ lastReply.prev.user = lastReply.user
    /\ lastReply.id < lastReply.prev.id
    /\ decoded(lastReply.out[1]) = GoodRecs("x")
    /\ Stored(store, lastReply.user, "gemini_recommendations")
            = Some(GoodRecs("x"))

\* the value a context takes for a field of the user's document: the
\* default when there is no document, no such field, or null in it
ContextValue(coll, u, field, null, default) ==
    IF Stored(coll, u, field) = None \/ Stored(coll, u, field) = Some(null)
    THEN default ELSE Stored(coll, u, field)[1]

\* C12: a chat request reaches the completion service whatever the user's
\* document lacks, with empty defaults in its context for answers, saved
\* plans and prior recommendations that are missing or null; it is answered
\* 200 exactly when the service returned text that is not empty after
\* trimming, and fails only for a service error or an empty text.
C12_ChatDefaults ==
    /\ [](lastReply.op = "chat"
            => /\ lastReply.calls = 1
               /\ lastReply.out # None
               /\ lastReply.status = 200
                    <=> (~lastReply.out[1].err
                         /\ lastReply.out[1].text.kind \notin {"none", "empty"})
               /\ lastReply.status # 200
                    => (lastReply.out[1].err
                        \/ lastReply.out[1].text.kind \in {"none", "empty"}))
    /\ [][Starting("chat")
            => LET r == inflight'[Len(inflight')]
               IN  /\ r.prompt.answers
                        = ContextValue(store, r.user, "answers", NullAnswers, {})
                   /\ r.prompt.plans
                        = ContextValue(store, r.user, "saved_card_plans",
                                       NullPlans, EmptyMap)
                   /\ r.prompt.recs
                        = ContextValue(store, r.user, "gemini_recommendations",
                                       NullVal, List(<<>>))
         ]_vars

\* a chat request of a user whose document holds null for answers, saved
\* plans and recommendations, answered 200 with the text of the service
C12_Witness ==
    /\ lastReply.op = "chat"
    /\ lastReply.status = 200
    /\ lastReply.out[1].text.kind = "prose"
    /\ store = <<NullDoc>>

\* C13: in every reachable state, the recommendation list a user's document
\* holds, if it holds one, is a list of exactly 3 objects of the
\* recommendation shape.
C13_StoredRecommendationsShape ==
    \A i \in 1..Len(store) :
        "gemini_recommendations" \in DOMAIN store[i]
            => RecommendationsShape(store[i]["gemini_recommendations"])

\* request i is waiting at its call of the completion service
Waiting(i) ==
    \E s \in 1..Len(inflight) :
        /\ inflight[s].id = i
        /\ inflight[s].op \in {"get_recommendations", "save_card", "chat"}

\* C14: every get-recommendations, save-card and chat request that waits for
\* the completion service is eventually answered, with success or with a
\* failure, also when the service stays silent.
C14_RequestsTerminate ==
    \A i \in 1..MaxReqs : Waiting(i) ~> ~Waiting(i)

\* a request that waits for the completion service has the catalog it
\* loaded: in its prompt, or as the card it looked up
CatalogInHand(r) ==
    /\ r.op = "save_card" => (r.card # None /\ r.card[1] \in Range(Catalog))
    /\ r.op \in {"get_recommendations", "chat"} => r.prompt.cards = Catalog

\* C15: no get-recommendations, save-card or chat request calls the
\* completion service without the catalog it failed to load, and a
\* saved-cards request whose catalog load failed is not answered 200.
C15_CatalogFailureFails ==
    /\ \A s \in 1..Len(inflight) : CatalogInHand(inflight[s])
    /\ (lastReply.op = "saved_cards" /\ lastReply.body[1].catalog = "failed")
          => lastReply.status # 200

\* C16: a step after which a user has a document who had none before is
\* the step of a submit-answers or of an onboarding request; no
\* get-recommendations, save-card, chat or saved-cards request creates one.
C16_CreatedBySubmitOrOnboard ==
    [][\A u \in Users :
          (find_one(store, u) = None /\ find_one(store', u) # None)
              => (Answering
                  /\ lastReply'.op \in {"submit_answers", "onboard_user"})
      ]_vars

\* the documents the collection holds for a user id
Documents(coll, u) == {i \in 1..Len(coll) : coll[i]["supabase_user_id"] = u}

\* C17: whatever the interleaving of onboarding, submit-answers and
\* save-card requests for one user id, the store holds at most one document
\* for it, and an onboarding request for a user who has a document changes
\* none of its answers, recommendations and saved plans.
C17_OneDocumentPerUser ==
    /\ [](\A u \in Users : Cardinality(Documents(store, u)) <= 1)
    /\ [][(Answering /\ lastReply'.op = "onboard_user"
             /\ find_one(store, lastReply'.user) # None)
            => \A f \in {"answers", "gemini_recommendations", "saved_card_plans"} :
                  Stored(store', lastReply'.user, f)
                    = Stored(store, lastReply'.user, f)
         ]_vars

\* this step answers a saved-cards request
SavedCardsAnswered == Answering /\ lastReply'.op = "saved_cards"

\* what a saved-cards response has to hold, given when a card_id counts as
\* a filter (given), the catalog a legacy entry is rebuilt from (catalog)
\* and the keys that hold null in an object rebuilt without a catalog entry
SavedCardsBody(given, catalog, nullKeys) ==
    LET u == lastReply'.user
        filter == lastReply'.payload.card_id
        body == lastReply'.body[1]
        plans == ContextValue(store, u, "saved_card_plans", NullPlans, EmptyMap)
        keys == IF given THEN DOMAIN plans \cap {filter[1]} ELSE DOMAIN plans
    IN  /\ DOMAIN body.saved_cards = keys
        /\ \A k \in keys :
              LET item == body.saved_cards[k]
                  entry == first_by_id(catalog, k)
              IN  /\ (item.plan # None) = body.include_plans
                  /\ IF "card" \in DOMAIN plans[k]
                     THEN /\ item.fields = plans[k].card
                          /\ item.nulls = {}
                          /\ body.include_plans => item.plan = Some(plans[k].plan)
                     ELSE /\ body.include_plans => item.plan = Some(plans[k])
                          /\ IF entry # None
                             THEN /\ item.fields = saved_snapshot(entry[1])
                                  /\ item.nulls = {}
                             ELSE /\ item.fields = [id |-> k]
                                  /\ item.nulls = nullKeys
        /\ store' = store
        /\ inflight' = inflight

C19_SavedEntryShape ==
    \A i \in 1..Len(store) :
        "saved_card_plans" \in DOMAIN store[i]
            => \A k \in DOMAIN store[i]["saved_card_plans"] :
                  LET entry == store[i]["saved_card_plans"][k]
                  IN  /\ DOMAIN entry = {"card", "plan"}
                      /\ entry.card.id = k
                      /\ first_by_id(Catalog, k) # None
                      /\ PlanShape(entry.plan)

\* a card selected by its name alone was saved under the catalog's id, the
\* second of the catalog
C19_Witness ==
    /\ lastReply.op = "save_card"
    /\ lastReply.status = 200
    /\ lastReply.wrote
    /\ lastReply.payload.card_id = None
    /\ lastReply.card[1].id = Catalog[2].id
    /\ Entry(store, lastReply.user, Catalog[2].id) = Some(SavedPair(lastReply))

\* the operations behind the identity check
ProtectedOps ==
    {"submit_answers", "get_recommendations", "save_card", "chat", "saved_cards"}

\* the request a step works for: the one it answers, or the one it suspends
Acting ==
    IF Answering
    THEN [op |-> lastReply'.op, user |-> lastReply'.user]
    ELSE [op |-> inflight'[Len(inflight')].op,
          user |-> inflight'[Len(inflight')].user]

\* the documents of a user, in the order of the store
Own(coll, u) == SelectSeq(coll, LAMBDA d : d["supabase_user_id"] = u)

OwnDoc(u) == IF find_one(Own(store, u), u) = None
               THEN <<>> ELSE find_one(Own(store, u), u)[1]

\* what a step of a protected operation of user u took from the store is
\* what the documents of u alone give
ReadsOwn(u) ==
    /\ Starting("chat")
        => LET r == inflight'[Len(inflight')]
           IN  /\ r.prompt.answers
                    = ContextValue(Own(store, u), u, "answers", NullAnswers, {})
               /\ r.prompt.plans
                    = ContextValue(Own(store, u), u, "saved_card_plans",
                                   NullPlans, EmptyMap)
               /\ r.prompt.recs
                    = ContextValue(Own(store, u), u, "gemini_recommendations",
                                   NullVal, List(<<>>))
               /\ r.prompt.profile.firstName = get(OwnDoc(u), "firstName", None)
    /\ (Starting("get_recommendations") \/ Starting("save_card"))
        => inflight'[Len(inflight')].prompt.answers = get(OwnDoc(u), "answers", {})
    /\ (Answering /\ lastReply'.op = "get_recommendations"
          /\ lastReply'.status = 404)
        => "answers" \notin DOMAIN OwnDoc(u)
    /\ (Answering /\ lastReply'.op = "submit_answers" /\ lastReply'.wrote)
        => lastReply'.flag = (Own(store, u) = <<>>)
    /\ (Answering /\ lastReply'.op = "saved_cards")
        => DOMAIN lastReply'.body[1].saved_cards
             \subseteq DOMAIN ContextValue(Own(store, u), u, "saved_card_plans",
                                           NullPlans, EmptyMap)

\* C20: a step of a protected operation of user X leaves the documents of
\* every other user as they were, and what it takes from the store (the
\* context of its prompt, the 404 for missing answers, the upserted flag,
\* the saved cards it lists) is what X's own documents give.
C20_UserIsolation ==
    [][Acting.op \in ProtectedOps
         => /\ \A y \in Users \ {Acting.user} : Own(store', y) = Own(store, y)
            /\ ReadsOwn(Acting.user)]_vars

\* two users each submitted answers, the second after the first: each has
\* a document with the answers of its own request
C20_Witness ==
    /\ lastReply.op = "submit_answers" /\ lastReply.wrote
    /\ lastReply.prev.op = "submit_answers" /\ lastReply.prev.wrote
    /\ lastReply.user # lastReply.prev.user
    /\ lastReply.payload.answers # lastReply.prev.payload.answers
    /\ Stored(store, lastReply.user, "answers") = Some(lastReply.payload.answers)
    /\ Stored(store, lastReply.prev.user, "answers")
            = Some(lastReply.prev.payload.answers)

====
